---- MODULE Spec2Model ----
(***************************************************************************)
(* The agent execution loop of agents/executor.go: Executor.Call and the   *)
(* functions it calls (doIteration, checkRepeatedAction, doAction,         *)
(* getReturn, inputsToString, getNameToTool).  The planner (Agent.Plan),   *)
(* the tools (Tool.Call) and the callbacks handler are the environment:    *)
(* what they return is chosen with \E, what the loop hands them is         *)
(* recorded in the trace.                                                  *)
(***************************************************************************)
EXTENDS Integers, Sequences, FiniteSets, TLC

VARIABLES
    maxIterations,            \* Executor.MaxIterations
    returnIntermediateSteps,  \* Executor.ReturnIntermediateSteps
    callbacksHandler,         \* Executor.CallbacksHandler != nil
    errorHandler,             \* Executor.ErrorHandler: "nil", "noFormatter", "formatter"
    agentTools,               \* Executor.Agent.GetTools(): the declared tool names, in order
    agentPlans,               \* the action lists the agent's Plan may return in this Call
    inputValues,              \* the inputValues argument of Call
    pc,                       \* position of Call: "start", "loop", "act", "done", "panic"
    i,                        \* the loop variable i of Call
    steps,                    \* the local variable steps of Call (the ledger)
    actions,                  \* the actions of the current plan not yet ranged over
    outputs,                  \* the map returned by Call
    err,                      \* the error returned by Call
    trace,                    \* the calls made to the planner, the tools and the handler
    twin,                     \* a second Call on the same Executor: its state
    googleai                  \* llms/googleai: the options of New, the client, its requests

vars == <<maxIterations, returnIntermediateSteps, callbacksHandler, errorHandler,
          agentTools, agentPlans, inputValues, pc, i, steps, actions,
          outputs, err, trace, twin, googleai>>

\* The locals of Call and what it made and returned.
call == <<pc, i, steps, actions, outputs, err, trace>>

config == <<maxIterations, returnIntermediateSteps, callbacksHandler, errorHandler,
            agentTools, agentPlans, inputValues>>

-----------------------------------------------------------------------------
(* Bounds *)

MaxIter == 3      \* largest MaxIterations tried
MaxIterTwo == 2   \* largest MaxIterations tried with two Calls at a time
MaxRequests == 1  \* most requests sent through one googleai client
MaxIterFew == 1   \* largest MaxIterations tried next to the ones below 1

-----------------------------------------------------------------------------
(* Strings of the source *)

_intermediateStepsOutputKey == "intermediateSteps"

LastChanceObservation ==
    "\n Important: Do you have enough data to answer? Provide the final answer \n"

RepeatedObservation ==
    "ATTENTION: you are repeating the same action. Now, you have just 2 options: 1. Write the final answer. 2. Write a different action"

NoneObservation == "ATTENTION: write the final answer. use the format -> Final Answer: "

InvalidToolObservation(tool) == tool \o " is not a valid tool, try another one"

\* The errors of the agents package, by name.
ErrNotFinished == "ErrNotFinished"
ErrAgentNoReturn == "ErrAgentNoReturn"
ErrExecutorInputNotString == "ErrExecutorInputNotString"
ErrUnableToParseOutput == "ErrUnableToParseOutput"

NoErr == "nil"

\* fmt.Errorf("%w: %s", ErrExecutorInputNotString, key)
InputNotStringError(key) == ErrExecutorInputNotString \o ": " \o key

-----------------------------------------------------------------------------
(* strings.ToUpper and strings.ToLower on the names that occur *)

ToUpper(s) ==
    CASE s = "calc"    -> "CALC"
      [] s = "Calc"    -> "CALC"
      [] s = "CALC"    -> "CALC"
      [] s = "none"    -> "NONE"
      [] s = "None"    -> "NONE"
      [] s = "NONE"    -> "NONE"
      [] s = "fooTool" -> "FOOTOOL"
      [] s = ""        -> ""

ToLower(s) ==
    CASE s = "calc"    -> "calc"
      [] s = "Calc"    -> "calc"
      [] s = "CALC"    -> "calc"
      [] s = "none"    -> "none"
      [] s = "None"    -> "none"
      [] s = "NONE"    -> "none"
      [] s = "fooTool" -> "footool"
      [] s = ""        -> ""

-----------------------------------------------------------------------------
(* schema.AgentAction, schema.AgentStep, and map[string]any values *)

AgentAction(tool, toolInput, log) == [tool |-> tool, toolInput |-> toolInput, log |-> log]

\* The zero value of schema.AgentAction.
EmptyAction == AgentAction("", "", "")

AgentStep(action, observation) == [action |-> action, observation |-> observation]

\* A value stored in a map[string]any: absent, a string, or a []schema.AgentStep.
Absent == [kind |-> "absent", str |-> "", steps |-> <<>>]
StrVal(s) == [kind |-> "str", str |-> s, steps |-> <<>>]
StepsVal(ss) == [kind |-> "steps", str |-> "", steps |-> ss]

\* A map[string]any over the keys "output" and "intermediateSteps".  A nil
\* map and make(map[string]any) both have no entries; they differ in nil.
NilMap == [nil |-> TRUE, output |-> Absent, intermediateSteps |-> Absent]
EmptyMap == [nil |-> FALSE, output |-> Absent, intermediateSteps |-> Absent]
OutputMap(s) == [nil |-> FALSE, output |-> StrVal(s), intermediateSteps |-> Absent]

\* finish.ReturnValues of a Finish that follows the "output" convention, and
\* of one that also carries its own entry under the reserved key.
OutputAndStepsMap(s, t) ==
    [nil |-> FALSE, output |-> StrVal(s), intermediateSteps |-> StrVal(t)]

-----------------------------------------------------------------------------
(* The environment: planner responses, tool results, input maps *)

\* The errors a planner returns: one wraps ErrUnableToParseOutput, one does not.
UnparsableError == "unable to parse agent output: gibberish"
OtherPlannerError == "planner failed"
PlannerErrors == {UnparsableError, OtherPlannerError}

\* errors.Is(e, target), for the errors above.
ErrorsIs(e, target) == (e = target) \/ (e = UnparsableError /\ target = ErrUnableToParseOutput)

ToolError == "tool failed"

\* What Tool.Call returns: (observation, error).
ToolResults == {[observation |-> "4", err |-> NoErr], [observation |-> "", err |-> ToolError]}

\* ParserErrorHandler.Formatter, when set.
Formatter(s) == "formatted: " \o s

\* The ReturnValues a Finish may carry.
FinishValues == {NilMap, EmptyMap, OutputMap("Paris"), OutputAndStepsMap("Paris", "mine")}

NoFinish == [present |-> FALSE, returnValues |-> NilMap]
Finish(rv) == [present |-> TRUE, returnValues |-> rv]

\* What Agent.Plan returns: (actions, finish, err).  An error comes alone; a
\* Finish comes alone or with actions; without either there are actions or
\* nothing at all.
PlanResponses ==
    [actions : {<<>>}, finish : {NoFinish}, err : PlannerErrors]
    \cup [actions : {<<>>} \cup agentPlans,
          finish : {NoFinish} \cup {Finish(rv) : rv \in FinishValues},
          err : {NoErr}]

\* A value of inputValues: a string or something else (an int).
InputKeys == {"input", "k"}
InputValue(isString, text) == [isString |-> isString, text |-> text]
InputMaps == [InputKeys -> {InputValue(TRUE, "q"), InputValue(FALSE, "42")}]

\* The agents: each is the set of action lists its Plan may return.  One
\* plans with a declared tool and an undeclared one, the other with the
\* "none" sentinel and with an action of empty tool name and input.
Calc == AgentAction("calc", "2+2", "thought")
Foo == AgentAction("fooTool", "2+2", "thought")
NoneAct == AgentAction("NONE", "", "thought")
Blank == AgentAction("", "", "thought")
CalcUpper == AgentAction("CALC", "2+2", "thought")
WithTools == {<<Calc>>, <<Calc, Foo>>, <<Foo, Calc>>}
WithNone == {<<NoneAct>>, <<Blank>>, <<Blank, NoneAct>>}
WithCase == {<<Calc>>, <<CalcUpper>>, <<Foo, CalcUpper>>}

\* An agent: the tools it declares (GetTools) and the plans it makes (Plan).
Agent(tools, plans) == [tools |-> tools, plans |-> plans]

\* The agents: one tool, no tool, two tools whose names differ in case only,
\* and a tool that bears the name of the sentinel.
Agents ==
    { Agent(<<"calc">>, WithTools), Agent(<<>>, WithTools),
      Agent(<<"calc">>, WithNone),  Agent(<<>>, WithNone),
      Agent(<<"Calc", "calc">>, WithCase),
      Agent(<<"none">>, WithNone) }

Repertoires == {a.plans : a \in Agents}

\* The tool lists an agent declares.
ToolLists == {a.tools : a \in Agents}

-----------------------------------------------------------------------------
(* The trace of calls to the collaborators *)

Event(op, it, kind, tool, acts, ss, rv, msg) ==
    [op |-> op, it |-> it, kind |-> kind, tool |-> tool, acts |-> acts,
     steps |-> ss, returnValues |-> rv, msg |-> msg]

\* Agent.Plan(ctx, steps, inputs) and what it returned.
PlanKind(r) ==
    IF r.err # NoErr THEN "error"
    ELSE IF r.finish.present THEN "finish"
    ELSE IF Len(r.actions) = 0 THEN "nothing"
    ELSE "actions"

PlanEvent(r) ==
    Event("plan", i, PlanKind(r), 0, r.actions, steps, r.finish.returnValues, r.err)

\* tool.Call(ctx, action.ToolInput) on the tool declared at index t.
ToolEvent(t, action, res) ==
    Event("tool", i, IF res.err = NoErr THEN "ok" ELSE "error", t, <<action>>, steps, NilMap,
          IF res.err = NoErr THEN res.observation ELSE res.err)

\* CallbacksHandler.HandleAgentAction(ctx, action)
OnActionEvent(action) == Event("onAction", i, "", 0, <<action>>, <<>>, NilMap, "")

\* CallbacksHandler.HandleAgentFinish(ctx, finish, WithExecutedSteps(steps))
OnFinishEvent(rv, ss) == Event("onFinish", i, "", 0, <<>>, ss, rv, "")

Notify(tr, e) == IF callbacksHandler THEN Append(tr, e) ELSE tr

-----------------------------------------------------------------------------
(* The functions of executor.go *)

\* inputsToString checking the value under "input" only.
NonStringKeysInputOnly(iv) == {key \in DOMAIN iv : key = "input" /\ ~iv[key].isString}

\* inputsToString: the keys whose value fails the type assertion value.(string).
\* The range over the map returns at the first such key it meets, and the
\* iteration order of a Go map is unspecified: any of them can be the one named.
NonStringKeys(iv) == {key \in DOMAIN iv : ~iv[key].isString}

inputsToString(iv) == [key \in DOMAIN iv |-> iv[key].text]

\* An assignment that leaves an entry of the map as it is.
MapPutIfAbsent(m, key, value) ==
    [x \in DOMAIN m \cup {key} |-> IF x \in DOMAIN m THEN m[x] ELSE value]

\* nameToTool[key] = tool
MapPut(m, key, value) ==
    [x \in DOMAIN m \cup {key} |-> IF x = key THEN value ELSE m[x]]

\* getNameToTool: the range over the tools, from index k on; a tool is its index.
RECURSIVE RegisterTools(_, _, _)
RegisterTools(t, k, nameToTool) ==
    IF k > Len(t) THEN nameToTool
    ELSE RegisterTools(t, k + 1, MapPut(nameToTool, ToUpper(t[k]), k))

\* A nil map and an empty map answer every lookup with ok = false.
getNameToTool(t) ==
    IF Len(t) = 0 THEN <<>> ELSE RegisterTools(t, 1, <<>>)

\* The loop condition of Call with <= in place of <.
LoopConditionInclusive(idx, n) == idx <= n

\* The loop condition of Call.
LoopCondition(idx, n) == idx < n

\* The end of the loop body of Call assigning a new slice with the last-chance
\* step in place of appending it.
AfterIterationFresh(ss, idx, n) ==
    IF n > 2 /\ idx = n - 2
    THEN <<AgentStep(EmptyAction, LastChanceObservation)>>
    ELSE ss

\* The end of the loop body of Call, reached when doIteration returned neither
\* a finish nor an error: the last-chance step.
AfterIteration(ss, idx, n) ==
    IF n > 2 /\ idx = n - 2
    THEN Append(ss, AgentStep(EmptyAction, LastChanceObservation))
    ELSE ss

\* The comparison of checkRepeatedAction.
SameAction(stepAction, action) ==
    stepAction.tool = action.tool /\ stepAction.toolInput = action.toolInput

\* checkRepeatedAction comparing with the last step of the ledger only.
checkRepeatedActionLastStep(ss, action) ==
    IF Len(ss) > 0 /\ SameAction(ss[Len(ss)].action, action)
    THEN [steps |-> Append(ss, AgentStep(action, RepeatedObservation)),
          err |-> "repeated action: " \o action.tool]
    ELSE [steps |-> ss, err |-> NoErr]

\* checkRepeatedAction: the steps and the error it returns.
checkRepeatedAction(ss, action) ==
    IF \E k \in DOMAIN ss : SameAction(ss[k].action, action)
    THEN [steps |-> Append(ss, AgentStep(action, RepeatedObservation)),
          err |-> "repeated action: " \o action.tool]
    ELSE [steps |-> ss, err |-> NoErr]

\* getReturn panics on the assignment to an entry of a nil map.
getReturnPanics(returnValues) == returnIntermediateSteps /\ returnValues.nil

\* getReturn without the test of ReturnIntermediateSteps.
getReturnAlwaysInjects(returnValues, ss) ==
    [returnValues EXCEPT !.intermediateSteps = StepsVal(ss)]

\* getReturn: finish.ReturnValues after the call, which is also what it returns.
getReturn(returnValues, ss) ==
    IF returnIntermediateSteps
    THEN [returnValues EXCEPT !.intermediateSteps = StepsVal(ss)]
    ELSE returnValues

\* The observation taken from err.Error() without the Formatter.
RecoveryObservationUnformatted(e) == e

\* The observation of the step doIteration appends for an unparsable plan.
RecoveryObservation(e) ==
    IF errorHandler = "formatter" THEN Formatter(e) ELSE e

\* The recovery test without errors.Is.
RecoversAnyError(e) == errorHandler # "nil"

Recovers(e) == ErrorsIs(e, ErrUnableToParseOutput) /\ errorHandler # "nil"

-----------------------------------------------------------------------------
(* llms/googleai: JSON texts and values *)

\* A JSON value as it is written: t is "object", "string", "number", "null"
\* or "array"; lit is the literal of a string or a number; members are the
\* members of an object in the order they are written, each a key and a
\* value.  The elements of an array are left out.
JValue(t, lit, members) == [t |-> t, lit |-> lit, members |-> members]
JString(text) == JValue("string", text, <<>>)
JNumber(lit) == JValue("number", lit, <<>>)
JNull == JValue("null", "", <<>>)
JArray == JValue("array", "", <<>>)
JObject(members) == JValue("object", "", members)
Member(key, value) == [key |-> key, value |-> value]

\* A request body: no body at all (req.Body == nil), or bytes that are a
\* JSON text, compact or with white space, or are no JSON text.
NoBody == [present |-> FALSE, json |-> FALSE, layout |-> "", value |-> JNull]
Garbage == [present |-> TRUE, json |-> FALSE, layout |-> "", value |-> JNull]

\* A body whose Read fails after some bytes, and what is left of it for the
\* next reader after io.ReadAll has failed on it.
Unreadable == [present |-> TRUE, json |-> FALSE, layout |-> "unreadable", value |-> JNull]
Drained == [present |-> TRUE, json |-> FALSE, layout |-> "drained", value |-> JNull]

\* io.ReadAll(req.Body) returns an error
ReadAllFails(body) == body = Unreadable
JsonBody(layout, value) == [present |-> TRUE, json |-> TRUE, layout |-> layout, value |-> value]

\* What encoding/json makes of a value for an interface{}: a number is a
\* float64, kept by the literal that strconv gives it back with; an object is
\* a map, where the last of the members with one key stays.
Float64(lit) ==
    CASE lit = "1.0" -> "1"
      [] lit = "9007199254740993" -> "9007199254740992"
      [] OTHER -> lit

\* A Go value decoded from JSON.  A map[string]interface{} has no order: m
\* holds its entries, one for a key, in the order json.Marshal writes them
\* (sorted by key).
GoValue(t, lit, m) == [t |-> t, lit |-> lit, m |-> m]

KeyOrder == <<"contents", "generationConfig", "seed", "temperature",
              "thinkingBudget", "thinkingConfig">>
Rank(key) == CHOOSE k \in DOMAIN KeyOrder : KeyOrder[k] = key

KeysOf(members) == {members[k].key : k \in DOMAIN members}

HasKey(m, key) == key \in KeysOf(m)

\* m[key], for a key of the map
MapGet(m, key) == m[CHOOSE k \in DOMAIN m : m[k].key = key].value

\* m[key] = value
RECURSIVE MapSet(_, _, _)
MapSet(m, key, value) ==
    IF m = <<>> THEN <<Member(key, value)>>
    ELSE IF Head(m).key = key THEN <<Member(key, value)>> \o Tail(m)
    ELSE IF Rank(key) < Rank(Head(m).key) THEN <<Member(key, value)>> \o m
    ELSE <<Head(m)>> \o MapSet(Tail(m), key, value)

\* The decoder goes through the members as they are written: the last of the
\* members with one key stays.
RECURSIVE Decode(_)
RECURSIVE DecodeMembers(_, _)
DecodeMembers(members, m) ==
    IF members = <<>> THEN m
    ELSE DecodeMembers(Tail(members),
             MapSet(m, Head(members).key, Decode(Head(members).value)))

Decode(v) ==
    IF v.t = "object" THEN GoValue("object", "", DecodeMembers(v.members, <<>>))
    ELSE IF v.t = "number" THEN GoValue("number", Float64(v.lit), <<>>)
    ELSE GoValue(v.t, v.lit, <<>>)

\* json.Unmarshal(bodyBytes, &requestData) with requestData a
\* map[string]interface{}: an error for bytes that are no JSON text and for a
\* value that is neither an object nor null; null leaves the map nil.
UnmarshalFails(body) == ~body.json \/ body.value.t \notin {"object", "null"}
Unmarshal(body) ==
    IF body.value.t = "null" THEN [nil |-> TRUE, m |-> <<>>]
    ELSE [nil |-> FALSE, m |-> Decode(body.value).m]

RECURSIVE Encode(_)
RECURSIVE EncodeMembers(_)
EncodeMembers(m) ==
    IF m = <<>> THEN <<>>
    ELSE <<Member(Head(m).key, Encode(Head(m).value))>> \o EncodeMembers(Tail(m))

Encode(g) ==
    IF g.t = "object" THEN JObject(EncodeMembers(g.m))
    ELSE JValue(g.t, g.lit, <<>>)

\* json.Marshal(requestData)
Marshal(m) == JsonBody("compact", Encode(GoValue("object", "", m)))

\* map[string]interface{}{"thinkingBudget": -1}
ThinkingConfig ==
    GoValue("object", "", <<Member("thinkingBudget", GoValue("number", "-1", <<>>))>>)

-----------------------------------------------------------------------------
(* llms/googleai: transports, client options and the client *)

\* An http.RoundTripper: a thinkingTransport over a base, or the base alone.
\* The bases are http.DefaultTransport and a transport of the caller.
Transport(thinking, dynamicThinking, base) ==
    [thinking |-> thinking, dynamicThinking |-> dynamicThinking, base |-> base]
DefaultTransport == Transport(FALSE, FALSE, "default")
CustomTransport == Transport(FALSE, FALSE, "custom")

\* WrapTransportWithThinking(base, enableThinking), base being a base above.
WrapTransportWithThinking(base, enableThinking) ==
    Transport(TRUE, enableThinking, base.base)

\* An option.ClientOption: the name of its type and, for WithHTTPClient, the
\* transport of the client.
WithAPIKey == [type |-> "option.withAPIKey", transport |-> DefaultTransport]
WithHTTPClient(transport) == [type |-> "option.withHTTPClient", transport |-> transport]

\* The ClientOptions a caller hands to New.
CallerOptions ==
    { <<WithAPIKey>>,
      <<WithAPIKey, WithHTTPClient(CustomTransport)>>,
      <<WithAPIKey, WithHTTPClient(WrapTransportWithThinking(CustomTransport, TRUE))>>,
      <<WithAPIKey, WithHTTPClient(WrapTransportWithThinking(CustomTransport, FALSE))>> }

hasCustomHttpClient(opts) ==
    \E k \in DOMAIN opts : opts[k].type = "option.withHTTPClient"

\* New, up to genai.NewClient: the options handed to it.
NewClientOptions(dynamicThinking, opts) ==
    IF dynamicThinking
    THEN Append(opts, WithHTTPClient(Transport(TRUE, TRUE, "default")))
    ELSE opts

\* genai.NewClient(ctx, opts...): the transport of the client, that of the
\* last WithHTTPClient ("last option wins"), the default one without any.
RECURSIVE ClientTransport(_)
ClientTransport(opts) ==
    IF opts = <<>> THEN DefaultTransport
    ELSE IF opts[Len(opts)].type = "option.withHTTPClient" THEN opts[Len(opts)].transport
    ELSE ClientTransport(SubSeq(opts, 1, Len(opts) - 1))

\* req.URL.Path, a string, as the sequence of its characters: the path of
\* the models, the name of a model, a colon and the method.
V1BetaModels ==
    <<"/", "v", "1", "b", "e", "t", "a", "/", "m", "o", "d", "e", "l", "s",
      "/">>
GeminiPro ==
    <<"g", "e", "m", "i", "n", "i", "-", "p", "r", "o">>
GeminiFlashLite ==
    <<"g", "e", "m", "i", "n", "i", "-", "2", ".", "5", "-", "f", "l", "a",
      "s", "h", "-", "l", "i", "t", "e", "-", "p", "r", "e", "v", "i", "e",
      "w", "-", "0", "6", "-", "1", "7">>
GenerateContentTuned ==
    <<"g", "e", "n", "e", "r", "a", "t", "e", "C", "o", "n", "t", "e", "n",
      "t", "-", "t", "u", "n", "e", "d">>
Colon == <<":">>
GenerateContentWord ==
    <<"g", "e", "n", "e", "r", "a", "t", "e", "C", "o", "n", "t", "e", "n",
      "t">>
StreamGenerateContentWord ==
    <<"s", "t", "r", "e", "a", "m", "G", "e", "n", "e", "r", "a", "t", "e",
      "C", "o", "n", "t", "e", "n", "t">>
CountTokensWord ==
    <<"c", "o", "u", "n", "t", "T", "o", "k", "e", "n", "s">>

GenerateContentPath == V1BetaModels \o GeminiPro \o Colon \o GenerateContentWord
FlashLitePath == V1BetaModels \o GeminiFlashLite \o Colon \o GenerateContentWord
StreamPath == V1BetaModels \o GeminiPro \o Colon \o StreamGenerateContentWord
CountTokensPath == V1BetaModels \o GeminiPro \o Colon \o CountTokensWord
TunedCountTokensPath == V1BetaModels \o GenerateContentTuned \o Colon \o CountTokensWord
Paths == {GenerateContentPath, FlashLitePath, StreamPath, CountTokensPath,
          TunedCountTokensPath}

\* strings.Contains(s, substr)
Contains(s, substr) ==
    \E k \in 0..(Len(s) - Len(substr)) : SubSeq(s, k + 1, k + Len(substr)) = substr

\* strings.Contains(req.URL.Path, "generateContent")
ContainsGenerateContent(path) == Contains(path, GenerateContentWord)

\* The bodies of the requests.
Contents == Member("contents", JString("how much is 4*6*3.4"))
Bodies ==
    { NoBody, Garbage, Unreadable,
      JsonBody("compact", JNull),
      JsonBody("compact", JArray),
      JsonBody("compact", JObject(<<Contents>>)),
      JsonBody("spaced", JObject(<<Member("generationConfig",
                                      JObject(<<Member("temperature", JNumber("0.5"))>>)),
                                   Contents>>)),
      JsonBody("compact", JObject(<<Contents,
                                    Member("generationConfig",
                                      JObject(<<Member("thinkingConfig",
                                                  JObject(<<Member("thinkingBudget", JNumber("0"))>>)),
                                                Member("temperature", JNumber("1.0"))>>))>>)),
      JsonBody("compact", JObject(<<Contents, Member("generationConfig", JNull)>>)),
      JsonBody("compact", JObject(<<Contents, Member("generationConfig", JString("fast"))>>)),
      JsonBody("compact", JObject(<<Contents, Member("seed", JNumber("9007199254740993"))>>)) }

\* requestData["generationConfig"] == nil
GenerationConfigIsNil(requestData) ==
    IF requestData.nil \/ ~HasKey(requestData.m, "generationConfig") THEN TRUE
    ELSE MapGet(requestData.m, "generationConfig").t = "null"

\* The assignment to an entry of requestData, a nil map, panics.
RoundTripPanics(t, path, body) ==
    /\ t.dynamicThinking /\ ContainsGenerateContent(path)
    /\ body.present
    /\ ~ReadAllFails(body)
    /\ ~UnmarshalFails(body)
    /\ GenerationConfigIsNil(Unmarshal(body))
    /\ Unmarshal(body).nil

\* requestData after the two if statements that add the thinking
\* configuration.
WithThinkingConfig(m) ==
    LET made == IF GenerationConfigIsNil([nil |-> FALSE, m |-> m])
                THEN MapSet(m, "generationConfig", GoValue("object", "", <<>>))
                ELSE m
    IN  IF MapGet(made, "generationConfig").t = "object"
        THEN MapSet(made, "generationConfig",
                 GoValue("object", "",
                     MapSet(MapGet(made, "generationConfig").m, "thinkingConfig",
                            ThinkingConfig)))
        ELSE made

\* thinkingTransport.RoundTrip: the body of the request it hands to t.base,
\* when it does not panic.  After a failed io.ReadAll the request goes on with
\* the body as the read left it; after a failed json.Unmarshal with the bytes
\* that were read.
RoundTripBody(t, path, body) ==
    IF t.dynamicThinking /\ ContainsGenerateContent(path) /\ body.present
    THEN IF ReadAllFails(body) THEN Drained
         ELSE IF UnmarshalFails(body) THEN body
         ELSE Marshal(WithThinkingConfig(Unmarshal(body).m))
    ELSE body

\* The googleai package: the options of New, the client once New has made it,
\* the requests sent through the client and what reached the base transports.
GoogleAI(p, dynamicThinking, opts, transport, requests, forwarded) ==
    [pc |-> p, dynamicThinking |-> dynamicThinking, options |-> opts,
     transport |-> transport, requests |-> requests, forwarded |-> forwarded]

NotCreated(dynamicThinking, opts) ==
    GoogleAI("new", dynamicThinking, opts, DefaultTransport, <<>>, <<>>)

Request(path, body) == [path |-> path, body |-> body]
Forwarded(base, body) == [base |-> base, body |-> body]

-----------------------------------------------------------------------------
(* Init: an Executor and the arguments of one Call *)

\* The local state of a Call: its position, its locals, what it returns and
\* the invocations it made.
CallState(p, idx, ss, acts, out, e, tr) ==
    [pc |-> p, i |-> idx, steps |-> ss, actions |-> acts, outputs |-> out,
     err |-> e, trace |-> tr]

\* The Call that has not begun.
Fresh == CallState("start", 0, <<>>, <<>>, NilMap, NoErr, <<>>)

Init ==
    /\ maxIterations \in 0..MaxIter
    /\ returnIntermediateSteps \in BOOLEAN
    /\ callbacksHandler \in BOOLEAN
    /\ errorHandler \in {"nil", "noFormatter", "formatter"}
    /\ agentTools \in ToolLists
    /\ agentPlans \in Repertoires
    /\ Agent(agentTools, agentPlans) \in Agents
    /\ inputValues \in InputMaps
    /\ pc = "start"
    /\ i = 0
    /\ steps = <<>>
    /\ actions = <<>>
    /\ outputs = NilMap
    /\ err = NoErr
    /\ trace = <<>>
    /\ twin = Fresh
    /\ googleai = NotCreated(FALSE, <<>>)

-----------------------------------------------------------------------------
(* Call, up to the loop *)

\* inputsToString fails on key: return nil, err
CallInputNotString(key) ==
    /\ pc = "start"
    /\ key \in NonStringKeys(inputValues)
    /\ pc' = "done"
    /\ outputs' = NilMap
    /\ err' = InputNotStringError(key)
    /\ UNCHANGED <<config, i, steps, actions, trace>>

\* inputsToString succeeds; nameToTool is built; steps is made empty; i := 0
CallStart ==
    /\ pc = "start"
    /\ NonStringKeys(inputValues) = {}
    /\ pc' = "loop"
    /\ i' = 0
    /\ steps' = <<>>
    /\ UNCHANGED <<config, actions, outputs, err, trace>>

\* doIteration returned (ss, nil, nil): the rest of the loop body, and i++
Continue(ss) ==
    /\ pc' = "loop"
    /\ steps' = AfterIteration(ss, i, maxIterations)
    /\ i' = i + 1
    /\ actions' = <<>>
    /\ UNCHANGED <<outputs, err>>

\* Call returns (out, e)
Return(out, e) ==
    /\ pc' = "done"
    /\ outputs' = out
    /\ err' = e
    /\ actions' = <<>>
    /\ UNCHANGED i

-----------------------------------------------------------------------------
(* doIteration: the call of the planner and what follows from its answer *)

\* The loop of Call testing its condition after the first iteration only.
AtPlanAtLeastOnce == pc = "loop" /\ (i = 0 \/ LoopCondition(i, maxIterations))

AtPlan == pc = "loop" /\ LoopCondition(i, maxIterations)

\* doIteration returning the recovery step alone as the ledger.
DoIterationRecoverAlone(r) ==
    /\ AtPlan
    /\ r.err # NoErr /\ Recovers(r.err)
    /\ trace' = Append(trace, PlanEvent(r))
    /\ Continue(<<AgentStep(EmptyAction, RecoveryObservation(r.err))>>)
    /\ UNCHANGED config

\* Plan failed with ErrUnableToParseOutput and there is an ErrorHandler
DoIterationRecover(r) ==
    /\ AtPlan
    /\ r.err # NoErr /\ Recovers(r.err)
    /\ trace' = Append(trace, PlanEvent(r))
    /\ Continue(Append(steps, AgentStep(EmptyAction, RecoveryObservation(r.err))))
    /\ UNCHANGED config

\* Plan failed otherwise: return steps, nil, err
DoIterationPlanError(r) ==
    /\ AtPlan
    /\ r.err # NoErr /\ ~Recovers(r.err)
    /\ trace' = Append(trace, PlanEvent(r))
    /\ Return(NilMap, r.err)
    /\ UNCHANGED <<config, steps>>

\* doIteration taking an empty plan for an iteration without actions.
DoIterationNoReturnGoesOn(r) ==
    /\ AtPlan
    /\ r.err = NoErr
    /\ Len(r.actions) = 0 /\ ~r.finish.present
    /\ trace' = Append(trace, PlanEvent(r))
    /\ Continue(steps)
    /\ UNCHANGED config

\* len(actions) == 0 && finish == nil
DoIterationNoReturn(r) ==
    /\ AtPlan
    /\ r.err = NoErr
    /\ Len(r.actions) = 0 /\ ~r.finish.present
    /\ trace' = Append(trace, PlanEvent(r))
    /\ Return(NilMap, ErrAgentNoReturn)
    /\ UNCHANGED <<config, steps>>

\* finish != nil: HandleAgentFinish, getReturn; Call returns when the map
\* that getReturn returned is not nil, and goes on with the loop when it is.
DoIterationFinish(r) ==
    /\ AtPlan
    /\ r.err = NoErr
    /\ r.finish.present
    /\ trace' = Notify(Append(trace, PlanEvent(r)), OnFinishEvent(r.finish.returnValues, steps))
    /\ IF getReturnPanics(r.finish.returnValues)
       THEN /\ pc' = "panic"
            /\ UNCHANGED <<i, steps, actions, outputs, err>>
       ELSE LET finish == getReturn(r.finish.returnValues, steps)
            IN  IF ~finish.nil
                THEN Return(finish, NoErr) /\ UNCHANGED steps
                ELSE Continue(steps)
    /\ UNCHANGED config

\* actions and no finish: the range over the actions begins
DoIterationActions(r) ==
    /\ AtPlan
    /\ r.err = NoErr
    /\ Len(r.actions) > 0 /\ ~r.finish.present
    /\ trace' = Append(trace, PlanEvent(r))
    /\ pc' = "act"
    /\ actions' = r.actions
    /\ UNCHANGED <<config, i, steps, outputs, err>>

-----------------------------------------------------------------------------
(* doIteration: the range over the actions *)

nameToTool == getNameToTool(agentTools)

AtAction == pc = "act" /\ Len(actions) > 0

\* The action the range is at.
action == Head(actions)

\* tool, ok := nameToTool[strings.ToUpper(action.Tool)]
Resolves(a) == ToUpper(a.tool) \in DOMAIN nameToTool

\* strings.ToLower(action.Tool) == "none"
IsNone(a) == ToLower(a.tool) = "none"

\* doAction returned (ss, nil): the next action of the range, or the end of
\* doIteration when there is none.
NextAction(ss) ==
    IF Len(actions) > 1
    THEN /\ pc' = "act"
         /\ actions' = Tail(actions)
         /\ steps' = ss
         /\ UNCHANGED <<i, outputs, err>>
    ELSE Continue(ss)

\* doIteration returning the error of checkRepeatedAction: return steps, nil, err
ActionRepeatedIsFatal ==
    /\ AtAction
    /\ checkRepeatedAction(steps, action).err # NoErr
    /\ steps' = checkRepeatedAction(steps, action).steps
    /\ Return(NilMap, checkRepeatedAction(steps, action).err)
    /\ UNCHANGED <<config, trace>>

\* checkRepeatedAction returns an error: return steps, nil, nil
ActionRepeated ==
    /\ AtAction
    /\ checkRepeatedAction(steps, action).err # NoErr
    /\ Continue(checkRepeatedAction(steps, action).steps)
    /\ UNCHANGED <<config, trace>>

\* doAction leaving the step for "none" to the handler when there is one.
DoActionNoneHandled ==
    /\ AtAction
    /\ checkRepeatedAction(steps, action).err = NoErr
    /\ ~Resolves(action) /\ IsNone(action)
    /\ trace' = Notify(trace, OnActionEvent(action))
    /\ NextAction(IF callbacksHandler THEN steps
                  ELSE Append(steps, AgentStep(action, NoneObservation)))
    /\ UNCHANGED config

\* doAction, the tool is not found and the name is "none"
DoActionNone ==
    /\ AtAction
    /\ checkRepeatedAction(steps, action).err = NoErr
    /\ ~Resolves(action) /\ IsNone(action)
    /\ trace' = Notify(trace, OnActionEvent(action))
    /\ NextAction(Append(steps, AgentStep(action, NoneObservation)))
    /\ UNCHANGED config

\* doAction returning an error for a tool that is not found.
DoActionInvalidToolAborts ==
    /\ AtAction
    /\ checkRepeatedAction(steps, action).err = NoErr
    /\ ~Resolves(action) /\ ~IsNone(action)
    /\ trace' = Notify(trace, OnActionEvent(action))
    /\ steps' = <<>>
    /\ Return(NilMap, InvalidToolObservation(action.tool))
    /\ UNCHANGED config

\* doAction, the tool is not found
DoActionInvalidTool ==
    /\ AtAction
    /\ checkRepeatedAction(steps, action).err = NoErr
    /\ ~Resolves(action) /\ ~IsNone(action)
    /\ trace' = Notify(trace, OnActionEvent(action))
    /\ NextAction(Append(steps, AgentStep(action, InvalidToolObservation(action.tool))))
    /\ UNCHANGED config

\* doAction returning the ledger without the step of the observation.
DoActionToolOkUnrecorded(res) ==
    /\ AtAction
    /\ checkRepeatedAction(steps, action).err = NoErr
    /\ Resolves(action)
    /\ res.err = NoErr
    /\ trace' = Append(Notify(trace, OnActionEvent(action)),
                       ToolEvent(nameToTool[ToUpper(action.tool)], action, res))
    /\ NextAction(steps)
    /\ UNCHANGED config

\* doAction, tool.Call returns an observation
DoActionToolOk(res) ==
    /\ AtAction
    /\ checkRepeatedAction(steps, action).err = NoErr
    /\ Resolves(action)
    /\ res.err = NoErr
    /\ trace' = Append(Notify(trace, OnActionEvent(action)),
                       ToolEvent(nameToTool[ToUpper(action.tool)], action, res))
    /\ NextAction(Append(steps, AgentStep(action, res.observation)))
    /\ UNCHANGED config

\* doAction turning the failure of tool.Call into an observation.
DoActionToolErrorObserved(res) ==
    /\ AtAction
    /\ checkRepeatedAction(steps, action).err = NoErr
    /\ Resolves(action)
    /\ res.err # NoErr
    /\ trace' = Append(Notify(trace, OnActionEvent(action)),
                       ToolEvent(nameToTool[ToUpper(action.tool)], action, res))
    /\ NextAction(Append(steps, AgentStep(action, res.err)))
    /\ UNCHANGED config

\* doAction, tool.Call fails: doAction returns (nil, err), and so steps is nil
\* when doIteration and Call return the error
DoActionToolError(res) ==
    /\ AtAction
    /\ checkRepeatedAction(steps, action).err = NoErr
    /\ Resolves(action)
    /\ res.err # NoErr
    /\ trace' = Append(Notify(trace, OnActionEvent(action)),
                       ToolEvent(nameToTool[ToUpper(action.tool)], action, res))
    /\ steps' = <<>>
    /\ Return(NilMap, res.err)
    /\ UNCHANGED config

-----------------------------------------------------------------------------
(* Call, after the loop *)

\* Call returning the new empty map itself when the loop ran out.
CallNotFinishedEmptyOutputs ==
    /\ pc = "loop"
    /\ ~LoopCondition(i, maxIterations)
    /\ trace' = Notify(trace, OnFinishEvent(OutputMap(ErrNotFinished), steps))
    /\ Return(EmptyMap, ErrNotFinished)
    /\ UNCHANGED <<config, steps>>

\* The loop ran out: HandleAgentFinish with the marker, getReturn on a new
\* empty map, ErrNotFinished.
CallNotFinished ==
    /\ pc = "loop"
    /\ ~LoopCondition(i, maxIterations)
    /\ trace' = Notify(trace, OnFinishEvent(OutputMap(ErrNotFinished), steps))
    /\ Return(getReturn(EmptyMap, steps), ErrNotFinished)
    /\ UNCHANGED <<config, steps>>

-----------------------------------------------------------------------------
(* Call as a function: the state of one Call, and the state it is in after  *)
(* its next step, given what the planner or the tool it invokes returns.    *)
(* cb is whether the Call has a CallbacksHandler.                           *)

\* if e.CallbacksHandler != nil { ... }
NotifyIf(cb, tr, e) == IF cb THEN Append(tr, e) ELSE tr

\* doIteration returned (ss, nil, nil): the rest of the loop body, and i++
ContinueFrom(c, ss, tr) ==
    [c EXCEPT !.pc = "loop", !.steps = AfterIteration(ss, c.i, maxIterations),
              !.i = c.i + 1, !.actions = <<>>, !.trace = tr]

\* Call returns (out, e), its steps being ss
ReturnFrom(c, ss, out, e, tr) ==
    [c EXCEPT !.pc = "done", !.steps = ss, !.outputs = out, !.err = e,
              !.actions = <<>>, !.trace = tr]

\* doAction returned (ss, nil): the next action of the range, or the end of
\* doIteration.
NextActionFrom(c, ss, tr) ==
    IF Len(c.actions) > 1
    THEN [c EXCEPT !.actions = Tail(c.actions), !.steps = ss, !.trace = tr]
    ELSE ContinueFrom(c, ss, tr)

\* The Call is about to invoke Agent.Plan.
NeedsPlan(c) == c.pc = "loop" /\ LoopCondition(c.i, maxIterations)

\* The Call is about to invoke Tool.Call: the action the range is at passed
\* checkRepeatedAction and its tool is found.
NeedsTool(c) ==
    /\ c.pc = "act" /\ Len(c.actions) > 0
    /\ checkRepeatedAction(c.steps, Head(c.actions)).err = NoErr
    /\ ToUpper(Head(c.actions).tool) \in DOMAIN getNameToTool(agentTools)

Ended(c) == c.pc \in {"done", "panic"}

\* doIteration, from the call of Plan that returned r.
PlanStep(c, cb, r) ==
    LET planned == Append(c.trace,
                       Event("plan", c.i, PlanKind(r), 0, r.actions, c.steps,
                             r.finish.returnValues, r.err))
    IN  IF r.err # NoErr
        THEN IF Recovers(r.err)
             THEN ContinueFrom(c, Append(c.steps,
                      AgentStep(EmptyAction, RecoveryObservation(r.err))), planned)
             ELSE ReturnFrom(c, c.steps, NilMap, r.err, planned)
        ELSE IF Len(r.actions) = 0 /\ ~r.finish.present
        THEN ReturnFrom(c, c.steps, NilMap, ErrAgentNoReturn, planned)
        ELSE IF r.finish.present
        THEN LET notified == NotifyIf(cb, planned,
                                 Event("onFinish", c.i, "", 0, <<>>, c.steps,
                                       r.finish.returnValues, ""))
             IN  IF getReturnPanics(r.finish.returnValues)
                 THEN [c EXCEPT !.pc = "panic", !.trace = notified]
                 ELSE IF ~getReturn(r.finish.returnValues, c.steps).nil
                 THEN ReturnFrom(c, c.steps,
                          getReturn(r.finish.returnValues, c.steps), NoErr, notified)
                 ELSE ContinueFrom(c, c.steps, notified)
        ELSE [c EXCEPT !.pc = "act", !.actions = r.actions, !.trace = planned]

\* doAction, from the call of the tool that returned res.
ToolStep(c, cb, res) ==
    LET a == Head(c.actions)
        called == Append(NotifyIf(cb, c.trace,
                             Event("onAction", c.i, "", 0, <<a>>, <<>>, NilMap, "")),
                     Event("tool", c.i, IF res.err = NoErr THEN "ok" ELSE "error",
                           getNameToTool(agentTools)[ToUpper(a.tool)], <<a>>, c.steps,
                           NilMap, IF res.err = NoErr THEN res.observation ELSE res.err))
    IN  IF res.err # NoErr
        THEN ReturnFrom(c, <<>>, NilMap, res.err, called)
        ELSE NextActionFrom(c, Append(c.steps, AgentStep(a, res.observation)), called)

\* The steps of a Call that invoke neither the planner nor a tool; key is
\* the key that inputsToString names when it fails.
SilentStep(c, cb, key) ==
    IF c.pc = "start"
    THEN IF NonStringKeys(inputValues) # {}
         THEN ReturnFrom(c, c.steps, NilMap, InputNotStringError(key), c.trace)
         ELSE [c EXCEPT !.pc = "loop", !.i = 0, !.steps = <<>>]
    ELSE IF c.pc = "loop"
    THEN LET notified == NotifyIf(cb, c.trace,
                             Event("onFinish", c.i, "", 0, <<>>, c.steps,
                                   OutputMap(ErrNotFinished), ""))
         IN  ReturnFrom(c, c.steps, getReturn(EmptyMap, c.steps), ErrNotFinished, notified)
    ELSE LET a == Head(c.actions)
             checked == checkRepeatedAction(c.steps, a)
             notified == NotifyIf(cb, c.trace,
                             Event("onAction", c.i, "", 0, <<a>>, <<>>, NilMap, ""))
         IN  IF checked.err # NoErr
             THEN ContinueFrom(c, checked.steps, c.trace)
             ELSE IF ToLower(a.tool) = "none"
             THEN NextActionFrom(c, Append(c.steps, AgentStep(a, NoneObservation)), notified)
             ELSE NextActionFrom(c,
                      Append(c.steps, AgentStep(a, InvalidToolObservation(a.tool))),
                      notified)

\* What Agent.Plan returned in the plan event e, what Tool.Call returned in
\* the tool event e.
PlanResponseOf(e) ==
    [actions |-> e.acts,
     finish |-> [present |-> e.kind = "finish", returnValues |-> e.returnValues],
     err |-> e.msg]

ToolResultOf(e) ==
    IF e.kind = "ok" THEN [observation |-> e.msg, err |-> NoErr]
    ELSE [observation |-> "", err |-> e.msg]

\* The Call run from c against the answers of the invocations inv, in their
\* order, for as long as there is an answer for the invocation it makes.
RECURSIVE Run(_, _, _, _)
Run(c, cb, key, inv) ==
    IF Ended(c) THEN c
    ELSE IF NeedsPlan(c)
    THEN IF inv = <<>> \/ Head(inv).op # "plan" THEN c
         ELSE Run(PlanStep(c, cb, PlanResponseOf(Head(inv))), cb, key, Tail(inv))
    ELSE IF NeedsTool(c)
    THEN IF inv = <<>> \/ Head(inv).op # "tool" THEN c
         ELSE Run(ToolStep(c, cb, ToolResultOf(Head(inv))), cb, key, Tail(inv))
    ELSE Run(SilentStep(c, cb, key), cb, key, inv)

-----------------------------------------------------------------------------

Next ==
    \/ \E key \in InputKeys : CallInputNotString(key) /\ UNCHANGED <<twin, googleai>>
    \/ CallStart /\ UNCHANGED <<twin, googleai>>
    \/ \E r \in PlanResponses : DoIterationRecover(r) /\ UNCHANGED <<twin, googleai>>
    \/ \E r \in PlanResponses : DoIterationPlanError(r) /\ UNCHANGED <<twin, googleai>>
    \/ \E r \in PlanResponses : DoIterationNoReturn(r) /\ UNCHANGED <<twin, googleai>>
    \/ \E r \in PlanResponses : DoIterationFinish(r) /\ UNCHANGED <<twin, googleai>>
    \/ \E r \in PlanResponses : DoIterationActions(r) /\ UNCHANGED <<twin, googleai>>
    \/ ActionRepeated /\ UNCHANGED <<twin, googleai>>
    \/ DoActionNone /\ UNCHANGED <<twin, googleai>>
    \/ DoActionInvalidTool /\ UNCHANGED <<twin, googleai>>
    \/ \E res \in ToolResults : DoActionToolOk(res) /\ UNCHANGED <<twin, googleai>>
    \/ \E res \in ToolResults : DoActionToolError(res) /\ UNCHANGED <<twin, googleai>>
    \/ CallNotFinished /\ UNCHANGED <<twin, googleai>>

Spec == Init /\ [][Next]_vars

-----------------------------------------------------------------------------
(* Two Calls at a time on one Executor.  The second Call has the Executor,   *)
(* the agent and the inputs of the first and takes its steps between the     *)
(* steps of the first, with its own answers from the planner and the tools.  *)

\* The second Call invokes the planner.
TwinPlan(r) ==
    /\ ~Ended(twin) /\ NeedsPlan(twin)
    /\ twin' = PlanStep(twin, callbacksHandler, r)
    /\ UNCHANGED <<config, call, googleai>>

\* The second Call invoking a tool with the ledger kept in a field of the
\* Executor, where the first Call keeps its own.
TwinToolSharedLedger(res) ==
    /\ ~Ended(twin) /\ NeedsTool(twin)
    /\ twin' = ToolStep([twin EXCEPT !.steps = steps], callbacksHandler, res)
    /\ UNCHANGED <<config, call, googleai>>

\* The second Call invokes a tool.
TwinTool(res) ==
    /\ ~Ended(twin) /\ NeedsTool(twin)
    /\ twin' = ToolStep(twin, callbacksHandler, res)
    /\ UNCHANGED <<config, call, googleai>>

\* The second Call takes a step that invokes neither.
TwinSilent(key) ==
    /\ ~Ended(twin) /\ ~NeedsPlan(twin) /\ ~NeedsTool(twin)
    /\ (twin.pc = "start" /\ NonStringKeys(inputValues) # {})
           => key \in NonStringKeys(inputValues)
    /\ twin' = SilentStep(twin, callbacksHandler, key)
    /\ UNCHANGED <<config, call, googleai>>

\* The plans of an agent that asks twice for the same thing in one plan, or
\* for the sentinel and an undeclared tool.
WithRepeat == {<<Calc, Calc>>, <<NoneAct, Foo>>}

\* An Executor for two Calls: some iterations, the ledger in the outputs, a
\* handler, one agent, inputs that are strings or not.
InitTwo ==
    /\ maxIterations \in 1..MaxIterTwo
    /\ returnIntermediateSteps = TRUE
    /\ callbacksHandler = TRUE
    /\ errorHandler = "formatter"
    /\ agentTools = <<"calc">>
    /\ agentPlans = WithRepeat
    /\ inputValues \in {[key \in InputKeys |-> InputValue(TRUE, "q")],
                        [key \in InputKeys |-> IF key = "k" THEN InputValue(FALSE, "42")
                                                ELSE InputValue(TRUE, "q")]}
    /\ pc = "start"
    /\ i = 0
    /\ steps = <<>>
    /\ actions = <<>>
    /\ outputs = NilMap
    /\ err = NoErr
    /\ trace = <<>>
    /\ twin = Fresh
    /\ googleai = NotCreated(FALSE, <<>>)

NextTwo ==
    \/ Next
    \/ \E r \in PlanResponses : TwinPlan(r)
    \/ \E res \in ToolResults : TwinTool(res)
    \/ \E key \in InputKeys : TwinSilent(key)

SpecTwo == InitTwo /\ [][NextTwo]_vars

-----------------------------------------------------------------------------
(* Executors with MaxIterations around zero *)

\* MaxIterations is an int field of Executor: it may be zero or negative.
MinIter == -1

\* An Executor with few iterations or none, any of the agents or the one
\* that asks twice for the same thing, and the arguments of one Call.
InitFew ==
    /\ maxIterations \in MinIter..MaxIterFew
    /\ returnIntermediateSteps \in BOOLEAN
    /\ callbacksHandler \in BOOLEAN
    /\ errorHandler \in {"nil", "noFormatter", "formatter"}
    /\ agentTools \in ToolLists
    /\ agentPlans \in Repertoires \cup {WithRepeat}
    /\ Agent(agentTools, agentPlans) \in Agents \cup {Agent(<<"calc">>, WithRepeat)}
    /\ inputValues \in InputMaps
    /\ pc = "start"
    /\ i = 0
    /\ steps = <<>>
    /\ actions = <<>>
    /\ outputs = NilMap
    /\ err = NoErr
    /\ trace = <<>>
    /\ twin = Fresh
    /\ googleai = NotCreated(FALSE, <<>>)

SpecFew == InitFew /\ [][Next]_vars

-----------------------------------------------------------------------------
(* llms/googleai: New and the requests of the client *)

\* New(ctx, opts...), genai.NewClient returns a client
GoogleAINew ==
    /\ googleai.pc = "new"
    /\ googleai' = [googleai EXCEPT
            !.pc = "ready",
            !.transport = ClientTransport(
                NewClientOptions(googleai.dynamicThinking, googleai.options))]
    /\ UNCHANGED <<config, call, twin>>

\* New(ctx, opts...), genai.NewClient returns an error: New returns (gi, err)
\* with gi.client nil, and there is no client to send requests through.
GoogleAINewClientError ==
    /\ googleai.pc = "new"
    /\ googleai' = [googleai EXCEPT !.pc = "failed"]
    /\ UNCHANGED <<config, call, twin>>

CanSend == googleai.pc = "ready" /\ Len(googleai.requests) < MaxRequests

\* A request through a client whose transport is no thinkingTransport.
BaseRoundTrip(path, body) ==
    /\ CanSend
    /\ ~googleai.transport.thinking
    /\ googleai' = [googleai EXCEPT
            !.requests = Append(@, Request(path, body)),
            !.forwarded = Append(@, Forwarded(googleai.transport.base, body))]
    /\ UNCHANGED <<config, call, twin>>

\* thinkingTransport.RoundTrip, returning t.base.RoundTrip(req)
ThinkingRoundTrip(path, body) ==
    /\ CanSend
    /\ googleai.transport.thinking
    /\ ~RoundTripPanics(googleai.transport, path, body)
    /\ googleai' = [googleai EXCEPT
            !.requests = Append(@, Request(path, body)),
            !.forwarded = Append(@, Forwarded(googleai.transport.base,
                                       RoundTripBody(googleai.transport, path, body)))]
    /\ UNCHANGED <<config, call, twin>>

\* thinkingTransport.RoundTrip, panicking
ThinkingRoundTripPanic(path, body) ==
    /\ CanSend
    /\ googleai.transport.thinking
    /\ RoundTripPanics(googleai.transport, path, body)
    /\ googleai' = [googleai EXCEPT
            !.pc = "panic",
            !.requests = Append(@, Request(path, body))]
    /\ UNCHANGED <<config, call, twin>>

\* A caller of New: dynamic thinking or not, and its client options; the
\* Executor is not in use.
InitGoogleAI ==
    /\ maxIterations = 0
    /\ returnIntermediateSteps = FALSE
    /\ callbacksHandler = FALSE
    /\ errorHandler = "nil"
    /\ agentTools = <<>>
    /\ agentPlans = WithTools
    /\ inputValues = [key \in InputKeys |-> InputValue(TRUE, "q")]
    /\ pc = "start"
    /\ i = 0
    /\ steps = <<>>
    /\ actions = <<>>
    /\ outputs = NilMap
    /\ err = NoErr
    /\ trace = <<>>
    /\ twin = Fresh
    /\ \E dynamicThinking \in BOOLEAN, opts \in CallerOptions :
          googleai = NotCreated(dynamicThinking, opts)

NextGoogleAI ==
    \/ GoogleAINew
    \/ GoogleAINewClientError
    \/ \E path \in Paths, body \in Bodies : BaseRoundTrip(path, body)
    \/ \E path \in Paths, body \in Bodies : ThinkingRoundTrip(path, body)
    \/ \E path \in Paths, body \in Bodies : ThinkingRoundTripPanic(path, body)

SpecGoogleAI == InitGoogleAI /\ [][NextGoogleAI]_vars

-----------------------------------------------------------------------------
(* Reading the trace and the ledger *)

Events(op) == {k \in DOMAIN trace : trace[k].op = op}

PlanEvents(kind) == {k \in Events("plan") : trace[k].kind = kind}

LastChanceStep == AgentStep(EmptyAction, LastChanceObservation)

\* The ledger ss, with the last-chance step after it when the iteration idx
\* of a Call with n iterations is the one that is followed by it.
WithLastChance(ss, idx, n) ==
    IF n > 2 /\ idx = n - 2 THEN Append(ss, LastChanceStep) ELSE ss

HasCaution(ss) == \E k \in DOMAIN ss : ss[k].observation = RepeatedObservation

SomeInputNotString == \E key \in DOMAIN inputValues : ~inputValues[key].isString

\* Some declared tool has the name, up to the case of the letters.
Declared(name) ==
    \E j \in DOMAIN agentTools : ToUpper(agentTools[j]) = ToUpper(name)

\* The action a repeats the (tool, toolInput) pair of a step of ss.
Repeats(ss, a) ==
    \E k \in DOMAIN ss :
        ss[k].action.tool = a.tool /\ ss[k].action.toolInput = a.toolInput

\* The range over the actions is at an action that is not a repetition.
Dispatching == pc = "act" /\ Len(actions) > 0 /\ ~Repeats(steps, Head(actions))

\* The trace from its event k on.
After(tr, k) == SubSeq(tr, k + 1, Len(tr))

ToolEventsOf(tr) == {k \in DOMAIN tr : tr[k].op = "tool"}

\* The loop went from the action it was at to the next action of the plan,
\* or to the next iteration when it was the last, with ss as the ledger.
GoesOn(ss) ==
    /\ err' = NoErr /\ outputs' = outputs
    /\ IF Len(actions) > 1
       THEN pc' = "act" /\ actions' = Tail(actions) /\ i' = i /\ steps' = ss
       ELSE pc' = "loop" /\ i' = i + 1
            /\ steps' = WithLastChance(ss, i, maxIterations)

-----------------------------------------------------------------------------
(* C1 *)

\* C1: in a Call with maxIterations = N the planner's Plan is invoked at most
\* N times, whatever it returns and however many actions its plans contain.
C1_PlannerBound == Cardinality(Events("plan")) <= maxIterations

\* The budget is used up by plans of several actions.
C1_Witness ==
    /\ pc = "done" /\ err = ErrNotFinished
    /\ maxIterations >= 2
    /\ Cardinality(Events("plan")) = maxIterations
    /\ \A k \in Events("plan") : Len(trace[k].acts) >= 2

-----------------------------------------------------------------------------
(* C2 *)

\* C2 as stated: once an action repeats a (tool, toolInput) pair of the
\* ledger and the cautionary step is appended, the planner is not invoked
\* again, and Call returns an empty outputs map with no error.
C2_RepeatedActionEndsCall ==
    /\ \A k \in Events("plan") : ~HasCaution(trace[k].steps)
    /\ (pc = "done" /\ HasCaution(steps)) => (err = NoErr /\ outputs = EmptyMap)

\* C2 amended: an action that repeats a (tool, toolInput) pair of the ledger
\* ends the current iteration, not the Call: one cautionary step carrying the
\* action is appended, nothing is dispatched or notified for it, the rest of
\* the plan is dropped and no error arises; the loop goes on to its next
\* iteration, where the planner is invoked with that ledger if iterations
\* remain, and where Call returns ErrNotFinished if none remain.
C2_RepeatedActionEndsIteration ==
    [][ /\ ( /\ pc = "act" /\ Len(actions) > 0
             /\ \E k \in DOMAIN steps :
                   /\ steps[k].action.tool = Head(actions).tool
                   /\ steps[k].action.toolInput = Head(actions).toolInput )
           => /\ steps' = WithLastChance(
                     Append(steps, AgentStep(Head(actions), RepeatedObservation)),
                     i, maxIterations)
              /\ trace' = trace
              /\ pc' = "loop" /\ i' = i + 1
              /\ err' = NoErr /\ outputs' = outputs
        /\ ( /\ pc = "loop" /\ HasCaution(steps) )
           => IF i < maxIterations
              THEN /\ Len(trace') > Len(trace)
                   /\ trace'[Len(trace) + 1].op = "plan"
                   /\ trace'[Len(trace) + 1].steps = steps
              ELSE pc' = "done" /\ err' = ErrNotFinished
      ]_vars

\* The planner is invoked again, with the cautionary step in the ledger it is
\* given, after an action was found repeated with iterations left.
C2_Witness ==
    \E k \in Events("plan") :
        /\ HasCaution(trace[k].steps)
        /\ trace[k].it < maxIterations

-----------------------------------------------------------------------------
(* C3 *)

\* The outputs that go with a Finish: its return values, with the ledger
\* under the reserved key if and only if ReturnIntermediateSteps is set.
FinishOutputs(returnValues, ss) ==
    IF returnIntermediateSteps
    THEN [returnValues EXCEPT !.nil = FALSE, !.intermediateSteps = StepsVal(ss)]
    ELSE returnValues

\* C3: when the planner returns a Finish, Call returns the Finish's return
\* values, with the full ledger under "intermediateSteps" if and only if
\* returnIntermediateSteps is true, and a nil error.
C3_FinishOutputs ==
    \A k \in PlanEvents("finish") :
        /\ pc = "done"
        /\ err = NoErr
        /\ outputs = FinishOutputs(trace[k].returnValues, trace[k].steps)

-----------------------------------------------------------------------------
(* C4 *)

\* C4: a Finish ends the loop in the iteration that produced it: no planner
\* or tool invocation follows it, the ledger stays as it was handed to the
\* planner, and the loop is not running any more.
C4_FinishEndsLoop ==
    \A k \in PlanEvents("finish") :
        /\ \A j \in DOMAIN trace : j > k => trace[j].op \notin {"plan", "tool"}
        /\ steps = trace[k].steps
        /\ pc \notin {"loop", "act"}

-----------------------------------------------------------------------------
(* C5 *)

\* The loop of Call ran through all its iterations.
Exhausted == pc = "done" /\ i = maxIterations /\ ~SomeInputNotString

\* C5 as stated: a Call that runs through all its iterations returns
\* ErrNotFinished with an empty outputs map, for every configuration.
C5_NotFinishedEmptyOutputs ==
    Exhausted => (err = ErrNotFinished /\ outputs = EmptyMap)

\* C5 amended: a Call that runs through all its iterations returns
\* ErrNotFinished with an outputs map that is empty when
\* returnIntermediateSteps is false and holds the full ledger under
\* "intermediateSteps", and nothing else, when it is true; outputs hold a
\* ledger only when returnIntermediateSteps is set and Call returned from a
\* Finish or from exhaustion, never with a fatal error.
C5_NotFinishedOutputs ==
    /\ Exhausted =>
          /\ err = ErrNotFinished
          /\ outputs = IF returnIntermediateSteps
                       THEN [nil |-> FALSE, output |-> Absent,
                             intermediateSteps |-> StepsVal(steps)]
                       ELSE EmptyMap
    /\ outputs.intermediateSteps.kind = "steps" =>
          /\ returnIntermediateSteps
          /\ pc = "done"
          /\ err \in {NoErr, ErrNotFinished}

\* The budget ran out with steps in the ledger and returnIntermediateSteps set.
C5_Witness ==
    /\ Exhausted /\ err = ErrNotFinished
    /\ returnIntermediateSteps
    /\ Len(steps) > 0
    /\ outputs.intermediateSteps = StepsVal(steps)

-----------------------------------------------------------------------------
(* C6 *)

NotFinishedNotification(k) ==
    /\ trace[k].op = "onFinish"
    /\ trace[k].returnValues = OutputMap(ErrNotFinished)
    /\ trace[k].steps = steps

\* C6: with an Observer, a Call that exhausts its budget without a Finish
\* delivers exactly one onFinish, with the "not finished" marker and the
\* final ledger, before it returns; a Call that ends with a fatal error
\* delivers none; onFinish is delivered at most once per Call.
C6_OnFinishOnce ==
    callbacksHandler =>
        /\ (Exhausted /\ PlanEvents("finish") = {}) =>
              /\ Cardinality(Events("onFinish")) = 1
              /\ NotFinishedNotification(Len(trace))
        /\ (pc = "done" /\ err \notin {NoErr, ErrNotFinished}) => Events("onFinish") = {}
        /\ Cardinality(Events("onFinish")) <= 1

-----------------------------------------------------------------------------
(* C7 *)

\* C7: when a value of inputValues is not a string, Call returns no outputs
\* and the InputNotString error naming a key with such a value, and the
\* planner, the tools and the Observer are never invoked.
C7_InputNotString ==
    SomeInputNotString =>
        /\ pc \in {"start", "done"}
        /\ trace = <<>>
        /\ steps = <<>>
        /\ pc = "done" =>
              /\ outputs = NilMap
              /\ \E key \in DOMAIN inputValues :
                    /\ ~inputValues[key].isString
                    /\ err = ErrExecutorInputNotString \o ": " \o key

\* Call returned the error naming "k" while "input" holds a string.
C7_Witness ==
    /\ pc = "done"
    /\ inputValues["input"].isString /\ ~inputValues["k"].isString
    /\ err = ErrExecutorInputNotString \o ": k"

-----------------------------------------------------------------------------
(* C8 *)

\* C8: a failed tool invocation is the last thing the Call does: nothing is
\* dispatched, planned, notified or retried after it, and Call returns the
\* tool's error with no outputs.
C8_ToolErrorAborts ==
    \A k \in Events("tool") :
        trace[k].kind = "error" =>
            /\ k = Len(trace)
            /\ pc = "done"
            /\ err = trace[k].msg
            /\ outputs = NilMap

\* The first action of a plan of two failed, with iterations left.
C8_Witness ==
    \E k \in Events("tool"), p \in PlanEvents("actions") :
        /\ trace[k].kind = "error"
        /\ trace[p].it = trace[k].it
        /\ Len(trace[p].acts) = 2
        /\ trace[k].steps = trace[p].steps
        /\ trace[k].it + 1 < maxIterations
        /\ pc = "done"

-----------------------------------------------------------------------------
(* C9 *)

\* C9: when Plan fails with ErrUnableToParseOutput and an ErrorHandler is
\* set, the iteration appends one step with an empty action and the
\* (formatted) message, invokes no tool and no handler, counts as an
\* iteration, and hands over to the next iteration with no error.
C9_Recovery ==
    [][ ( /\ Len(trace') > Len(trace)
          /\ trace'[Len(trace) + 1].op = "plan"
          /\ trace'[Len(trace) + 1].msg = UnparsableError
          /\ errorHandler # "nil" )
        => /\ Len(trace') = Len(trace) + 1
           /\ steps' = WithLastChance(
                  Append(steps, AgentStep(EmptyAction,
                             IF errorHandler = "formatter"
                             THEN Formatter(UnparsableError) ELSE UnparsableError)),
                  i, maxIterations)
           /\ pc' = "loop" /\ i' = i + 1
           /\ err' = NoErr /\ outputs' = outputs
      ]_vars

\* A recovery step made with the Formatter is in the ledger handed to the planner.
C9_Witness ==
    /\ errorHandler = "formatter"
    /\ \E k \in Events("plan") :
          /\ Len(trace[k].steps) > 0
          /\ trace[k].steps[Len(trace[k].steps)]
                = AgentStep(EmptyAction, Formatter(UnparsableError))

-----------------------------------------------------------------------------
(* C10 *)

\* C10: when Plan fails and the failure is not recovered (another error, or
\* ErrUnableToParseOutput with no ErrorHandler), that call of Plan is the
\* last thing the Call does, the ledger stays as it was, and Call returns
\* the error with no outputs.
C10_PlanErrorAborts ==
    \A k \in PlanEvents("error") :
        (trace[k].msg # UnparsableError \/ errorHandler = "nil") =>
            /\ k = Len(trace)
            /\ pc = "done"
            /\ err = trace[k].msg
            /\ outputs = NilMap
            /\ steps = trace[k].steps

\* A planner failure of either fatal kind, after steps were made.
C10_Witness ==
    /\ pc = "done"
    /\ Len(steps) > 0
    /\ \/ err = UnparsableError /\ errorHandler = "nil"
       \/ err = OtherPlannerError /\ errorHandler # "nil"

-----------------------------------------------------------------------------
(* C11 *)

\* C11: when Plan returns no actions, no Finish and no error, that call of
\* Plan is the last thing the Call does, and Call returns ErrAgentNoReturn
\* with no outputs, with or without an ErrorHandler.
C11_AgentNoReturn ==
    \A k \in PlanEvents("nothing") :
        /\ k = Len(trace)
        /\ pc = "done"
        /\ err = ErrAgentNoReturn
        /\ outputs = NilMap
        /\ steps = trace[k].steps

\* An empty plan after a recovered failure, with a handler and iterations left.
C11_Witness ==
    /\ PlanEvents("nothing") # {}
    /\ errorHandler # "nil" /\ callbacksHandler
    /\ Len(steps) > 0
    /\ i + 1 < maxIterations
    /\ pc = "done"

-----------------------------------------------------------------------------
(* C12 *)

\* The actions of a plan that name no declared tool and are not the sentinel.
Unresolved(acts) ==
    {j \in DOMAIN acts : ~Declared(acts[j].tool) /\ ToLower(acts[j].tool) # "none"}

\* The ledger when the iteration of the plan event p was over.
LedgerAfter(p) ==
    IF \E q \in Events("plan") : q > p
    THEN trace[CHOOSE q \in Events("plan") : q > p /\ \A q2 \in Events("plan") : q2 > p => q <= q2].steps
    ELSE steps

\* The iteration of the plan event p is over.
IterationOver(p) == (\E q \in Events("plan") : q > p) \/ pc \in {"loop", "done"}

\* C12, as stated: every plan with an action that names a tool outside the
\* registry (not the sentinel) gets one step with the invalid-tool
\* observation for each such action, and the Call does not abort in it.
C12_UnresolvedInEveryBatch ==
    \A p \in PlanEvents("actions") :
        (Unresolved(trace[p].acts) # {} /\ IterationOver(p)) =>
            /\ \A j \in Unresolved(trace[p].acts) :
                  Cardinality({k \in DOMAIN LedgerAfter(p) :
                                  /\ k > Len(trace[p].steps)
                                  /\ LedgerAfter(p)[k] =
                                        AgentStep(trace[p].acts[j],
                                            InvalidToolObservation(trace[p].acts[j].tool))}) = 1
            /\ (pc = "done" /\ ~\E q \in Events("plan") : q > p) => err = ErrNotFinished

\* C12 amended: when the loop reaches an action that is not a repetition and
\* names a tool outside the registry (not the sentinel), it appends one step
\* carrying the action and the invalid-tool observation, invokes no tool,
\* raises no error and goes on to the next action of the plan, or to the next
\* iteration after the last action.
C12_UnresolvedDispatched ==
    [][ ( /\ Dispatching
          /\ ~Declared(Head(actions).tool)
          /\ ToLower(Head(actions).tool) # "none" )
        => /\ GoesOn(Append(steps, AgentStep(Head(actions),
                         InvalidToolObservation(Head(actions).tool))))
           /\ Len(trace') >= Len(trace)
           /\ SubSeq(trace', 1, Len(trace)) = trace
           /\ ToolEventsOf(After(trace', Len(trace))) = {}
      ]_vars

\* Two unresolved actions of one plan got their steps, and the planner was
\* invoked again with them.
C12_Witness ==
    \E p, q \in PlanEvents("actions") :
        /\ q > p
        /\ Len(trace[p].acts) = 2
        /\ Unresolved(trace[p].acts) = {1, 2}
        /\ Len(trace[q].steps) >= Len(trace[p].steps) + 2
        /\ \A j \in {1, 2} :
              trace[q].steps[Len(trace[p].steps) + j] =
                  AgentStep(trace[p].acts[j], InvalidToolObservation(trace[p].acts[j].tool))

-----------------------------------------------------------------------------
(* C13 *)

\* C13: when the loop reaches an action that is not a repetition and whose
\* tool name is "none" up to the case of the letters, whatever tools are
\* declared, it appends one step carrying the action and the
\* write-the-final-answer hint, invokes no tool, raises no error and goes on
\* to the next action of the plan, or to the next iteration after the last.
C13_NoneSentinel ==
    [][ ( /\ Dispatching
          /\ ToLower(Head(actions).tool) = "none" )
        => /\ GoesOn(Append(steps, AgentStep(Head(actions), NoneObservation)))
           /\ Len(trace') >= Len(trace)
           /\ SubSeq(trace', 1, Len(trace)) = trace
           /\ ToolEventsOf(After(trace', Len(trace))) = {}
      ]_vars

-----------------------------------------------------------------------------
(* C14 *)

LastChanceSteps(ss) == {k \in DOMAIN ss : ss[k] = LastChanceStep}

\* The step of the Call appended the last-chance step to the ledger.
LastChanceAppended ==
    /\ Len(steps') > Len(steps)
    /\ steps'[Len(steps')] = LastChanceStep

\* The step of the Call ended an iteration with neither a Finish nor a fatal
\* error: the loop is at its next iteration, and no Finish came from the
\* planner in the step.
IterationEndsUnfinished ==
    /\ pc \in {"loop", "act"} /\ pc' = "loop" /\ i' = i + 1
    /\ Len(trace') >= Len(trace)
    /\ \A k \in DOMAIN After(trace', Len(trace)) :
          ~(After(trace', Len(trace))[k].op = "plan"
            /\ After(trace', Len(trace))[k].kind = "finish")

\* C14: with maxIterations = N the last-chance step is appended exactly when
\* N > 2 and the iteration of index N-2 ends with neither a Finish nor a fatal
\* error, whatever the iteration made; so it is in the ledger at most once,
\* at most one planner invocation is given a ledger with it (the one of the
\* iteration N-1), and it is never there when N <= 2.
C14_LastChance ==
    [][ /\ LastChanceAppended
           <=> (maxIterations > 2 /\ i = maxIterations - 2 /\ IterationEndsUnfinished)
        /\ Cardinality(LastChanceSteps(steps')) <= 1
        /\ \A k \in DOMAIN trace' :
              (trace'[k].op = "plan" /\ LastChanceSteps(trace'[k].steps) # {})
                  => trace'[k].it = maxIterations - 1
        /\ maxIterations <= 2 => LastChanceSteps(steps') = {}
      ]_vars

-----------------------------------------------------------------------------
(* C15 *)

IsPrefix(s, t) == Len(s) <= Len(t) /\ SubSeq(t, 1, Len(s)) = s

\* C15, as stated: at every point of the Call, its return or abort included,
\* the ledger has every earlier value of the ledger as a prefix.
C15_AppendOnly == [][IsPrefix(steps, steps')]_vars

\* C15 amended: the ledger has every earlier value of the ledger as a prefix
\* at every point of the Call but one: when a tool fails the Call aborts with
\* the ledger discarded (nil).
C15_AppendOnlyButToolFailure ==
    [][ \/ IsPrefix(steps, steps')
        \/ /\ steps' = <<>>
           /\ pc' = "done" /\ err' # NoErr /\ outputs' = NilMap
           /\ Len(trace') > Len(trace)
           /\ trace'[Len(trace')].op = "tool" /\ trace'[Len(trace')].kind = "error"
      ]_vars

\* A ledger that grew in two iterations, the last-chance step included, was
\* then discarded on a tool failure.
C15_Witness ==
    \E k \in Events("tool") :
        /\ trace[k].kind = "error"
        /\ Len(trace[k].steps) >= 3
        /\ LastChanceSteps(trace[k].steps) # {}
        /\ \E p \in Events("plan") : p < k /\ trace[p].steps # <<>> /\ IsPrefix(trace[p].steps, trace[k].steps)
        /\ pc = "done" /\ steps = <<>>

-----------------------------------------------------------------------------
(* C16 *)

\* The action a has the toolInput of a step of ss and its tool name up to
\* the case of the letters.
RepeatsFolded(ss, a) ==
    \E k \in DOMAIN ss :
        /\ ToUpper(ss[k].action.tool) = ToUpper(a.tool)
        /\ ss[k].action.toolInput = a.toolInput

\* The step of the Call is the guard stopping the iteration at the action it
\* was at: the cautionary step, and nothing dispatched or notified.
GuardFires ==
    /\ steps' = WithLastChance(
           Append(steps, AgentStep(Head(actions), RepeatedObservation)),
           i, maxIterations)
    /\ trace' = trace
    /\ pc' = "loop"

\* C16: the repeated-action guard fires for an action if and only if a step
\* of the ledger has the same toolInput and the same tool name after
\* case-folding.
C16_GuardFoldsCase ==
    [][ (pc = "act" /\ Len(actions) > 0)
        => (GuardFires <=> RepeatsFolded(steps, Head(actions)))
      ]_vars

-----------------------------------------------------------------------------
(* C17 *)

\* The indices of the declared tools that bear the name up to case.
Bearers(name) == {j \in DOMAIN agentTools : ToUpper(agentTools[j]) = ToUpper(name)}

\* The events that the step of the Call added to the trace.
NewEvents == After(trace', Len(trace))

\* C17: when the loop reaches an action that is not a repetition, a tool is
\* invoked if and only if some declared tool has the action's tool name
\* after upper-casing both; the tool invoked is the last declared of those,
\* and it is given the action's toolInput. With no declared tool none is
\* invoked.
C17_Resolution ==
    [][ Dispatching =>
          /\ Len(trace') >= Len(trace)
          /\ Cardinality(ToolEventsOf(NewEvents))
                = IF Bearers(Head(actions).tool) # {} THEN 1 ELSE 0
          /\ \A k \in ToolEventsOf(NewEvents) :
                /\ NewEvents[k].tool \in Bearers(Head(actions).tool)
                /\ \A j \in Bearers(Head(actions).tool) : j <= NewEvents[k].tool
                /\ NewEvents[k].acts = <<Head(actions)>>
          /\ agentTools = <<>> => ToolEventsOf(NewEvents) = {}
      ]_vars

\* Of two tools declared as "Calc" and "calc", the second was invoked for an
\* action that names "CALC".
C17_Witness ==
    \E k \in Events("tool") :
        /\ agentTools = <<"Calc", "calc">>
        /\ trace[k].acts[1].tool = "CALC"
        /\ trace[k].tool = 2

-----------------------------------------------------------------------------
(* C19 *)

\* Call has returned, in one of the three ways: the outputs of a Finish with
\* no error, ErrNotFinished, or a fatal error with no outputs.
Returned ==
    /\ pc = "done"
    /\ \/ err = NoErr /\ ~outputs.nil
       \/ err = ErrNotFinished
       \/ err \notin {NoErr, ErrNotFinished} /\ outputs = NilMap

\* C19: with a planner and tools that return from every invocation, a Call
\* always has a step to take until it has returned, and it returns in one of
\* the three ways; the steps it can take are bounded by maxIterations.
C19_EndsByReturning ==
    /\ ENABLED Next \/ Returned
    /\ i <= maxIterations

-----------------------------------------------------------------------------
(* C18 *)

\* The state of the Call.
Main == CallState(pc, i, steps, actions, outputs, err, trace)

\* The invocations of the planner and of the tools in a trace, in their order.
IsInvocation(e) == e.op \in {"plan", "tool"}
Invocations(tr) == SelectSeq(tr, IsInvocation)

\* The state of a Call without what the handler was told.
Unobserved(c) == [c EXCEPT !.trace = Invocations(c.trace)]

\* The Call is about to invoke the planner or a tool, or it has ended.
Quiescent(c) == Ended(c) \/ NeedsPlan(c) \/ NeedsTool(c)

\* C18: whenever the Call is about to invoke the planner or a tool, or has
\* ended, a Call with the same Executor but for the CallbacksHandler (set in
\* one, nil in the other), the same inputs and the same answers from the
\* planner and the tools has made the same invocations with the same
\* arguments, has the same ledger and the same outputs and error.
C18_ObserverNoControl ==
    Quiescent(Main) =>
        \E key \in InputKeys :
            Unobserved(Run(Fresh, ~callbacksHandler, key, Invocations(trace)))
                = Unobserved(Main)

\* A Call whose handler was told of an action and of a Finish, with a "none"
\* action answered in its ledger, has returned the outputs of the Finish.
C18_Witness ==
    /\ callbacksHandler
    /\ pc = "done" /\ err = NoErr
    /\ Events("onAction") # {} /\ Events("onFinish") # {}
    /\ Cardinality(Events("plan")) >= 2
    /\ \E k \in DOMAIN steps : steps[k].observation = NoneObservation

-----------------------------------------------------------------------------
(* C20 *)

\* The Call in state c, run alone against the answers it got, is in state c.
AsAlone(c) ==
    \E key \in InputKeys : c = Run(Fresh, callbacksHandler, key, Invocations(c.trace))

\* Every step of the ledger of the Call in state c carries an action of a
\* plan that the Call got from the planner, or the empty action.
OwnSteps(c) ==
    \A k \in DOMAIN c.steps :
        \/ c.steps[k].action = EmptyAction
        \/ \E p \in DOMAIN c.trace :
              /\ c.trace[p].op = "plan"
              /\ \E j \in DOMAIN c.trace[p].acts : c.trace[p].acts[j] = c.steps[k].action

\* C20: with two Calls on one Executor taking their steps in any order, the
\* ledger of each has only steps made from its own plans, each is, whenever
\* it is about to invoke the planner or a tool or has ended, in the state
\* (ledger, outputs, error, invocations) it is in when run alone against the
\* answers it got, and no step of either writes the Executor's configuration.
C20_NoInterference ==
    /\ [](/\ OwnSteps(Main) /\ OwnSteps(twin)
          /\ Quiescent(Main) => AsAlone(Main)
          /\ Quiescent(twin) => AsAlone(twin))
    /\ [][config' = config]_vars

\* Both Calls have ended after invoking tools, with different ledgers and
\* different results.
C20_Witness ==
    /\ pc = "done" /\ twin.pc = "done"
    /\ Events("tool") # {} /\ ToolEventsOf(twin.trace) # {}
    /\ steps # <<>> /\ twin.steps # <<>> /\ steps # twin.steps
    /\ err = NoErr /\ twin.err = ErrNotFinished

-----------------------------------------------------------------------------
(* Reading JSON texts and the requests of the googleai client *)

\* What a JSON value means: a number is the number its literal denotes,
\* exactly; an object is its fields, the last member with a key giving the
\* field; the order of the members and the white space mean nothing.
Sem(t, lit, fields) == [t |-> t, lit |-> lit, fields |-> fields]
SemNumber(lit) == Sem("number", IF lit = "1.0" THEN "1" ELSE lit, {})

RECURSIVE Meaning(_)
Meaning(v) ==
    IF v.t = "object"
    THEN Sem("object", "",
             { [key |-> v.members[k].key, value |-> Meaning(v.members[k].value)] :
                   k \in {k1 \in DOMAIN v.members :
                             \A k2 \in DOMAIN v.members :
                                 v.members[k2].key = v.members[k1].key => k2 <= k1} })
    ELSE IF v.t = "number" THEN SemNumber(v.lit)
    ELSE Sem(v.t, v.lit, {})

FieldKeys(sem) == {f.key : f \in sem.fields}
Field(sem, key) == (CHOOSE f \in sem.fields : f.key = key).value

\* The fields of an object but the one with the key.
Without(sem, key) == {f \in sem.fields : f.key # key}

SemThinkingConfig ==
    Sem("object", "", {[key |-> "thinkingBudget", value |-> SemNumber("-1")]})

\* The body is a JSON text that is an object.
IsJsonObject(body) == body.present /\ body.json /\ body.value.t = "object"

\* The requests that a thinkingTransport with dynamic thinking enabled got
\* for a path that contains "generateContent".
Injecting(k) ==
    /\ googleai.transport.thinking /\ googleai.transport.dynamicThinking
    /\ ContainsGenerateContent(googleai.requests[k].path)

-----------------------------------------------------------------------------
(* C21 *)

\* The fields of generationConfig in an object, none when it is missing or
\* is no object.
GenerationConfigFields(sem) ==
    IF "generationConfig" \in FieldKeys(sem)
    THEN IF Field(sem, "generationConfig").t = "object"
         THEN Field(sem, "generationConfig").fields ELSE {}
    ELSE {}

\* C21: for every request with a JSON object as body that a thinkingTransport
\* with dynamic thinking enabled gets for a generateContent path, the base
\* transport is called once for it, with a JSON object whose generationConfig
\* is an object with thinkingConfig = {"thinkingBudget": -1}, with the other
\* fields of generationConfig and the other top-level fields as they were.
C21_ThinkingInjected ==
    \A k \in DOMAIN googleai.requests :
        (Injecting(k) /\ IsJsonObject(googleai.requests[k].body)) =>
            /\ Len(googleai.forwarded) = Len(googleai.requests)
            /\ IsJsonObject(googleai.forwarded[k].body)
            /\ LET sent == Meaning(googleai.requests[k].body.value)
                   got == Meaning(googleai.forwarded[k].body.value)
               IN  /\ "generationConfig" \in FieldKeys(got)
                   /\ Without(got, "generationConfig") = Without(sent, "generationConfig")
                   /\ { f \in GenerationConfigFields(got) : f.key # "thinkingConfig" }
                        = { f \in GenerationConfigFields(sent) : f.key # "thinkingConfig" }
                   /\ [key |-> "thinkingConfig", value |-> SemThinkingConfig]
                        \in GenerationConfigFields(got)

-----------------------------------------------------------------------------
(* C22 *)

\* C22: for every request that a thinkingTransport gets with dynamic thinking
\* disabled, or for a path without "generateContent", or with a body that is
\* no JSON object, the base transport is called once for it, with the very
\* bytes of the body.
C22_BodyUntouched ==
    \A k \in DOMAIN googleai.requests :
        ( /\ googleai.transport.thinking
          /\ \/ ~Injecting(k)
             \/ ~IsJsonObject(googleai.requests[k].body) ) =>
            /\ Len(googleai.forwarded) = Len(googleai.requests)
            /\ googleai.forwarded[k].body = googleai.requests[k].body

-----------------------------------------------------------------------------
(* C23 *)

\* The caller handed New an HTTP client whose transport is no
\* thinkingTransport.
UnwrappedClient(k) ==
    /\ googleai.options[k].type = "option.withHTTPClient"
    /\ ~googleai.options[k].transport.thinking

\* C23: when New is called with dynamic thinking enabled and with an HTTP
\* client of the caller that is not wrapped, the client that New returns
\* sends its requests through the caller's transport, and nothing is added to
\* their bodies.
C23_CustomClientRespected ==
    \A k \in DOMAIN googleai.options :
        (googleai.dynamicThinking /\ UnwrappedClient(k)
            /\ googleai.pc \notin {"new", "failed"}) =>
            /\ googleai.transport = googleai.options[k].transport
            /\ Len(googleai.forwarded) = Len(googleai.requests)
            /\ \A n \in DOMAIN googleai.requests :
                  /\ googleai.forwarded[n].base = "custom"
                  /\ googleai.forwarded[n].body = googleai.requests[n].body

-----------------------------------------------------------------------------
(* C24 *)

\* The tool invocations made for the (tool, toolInput) pair of the action a.
InvocationsFor(a) ==
    {k \in Events("tool") : /\ trace[k].acts[1].tool = a.tool
                            /\ trace[k].acts[1].toolInput = a.toolInput}

\* C24: when the loop is at an action that repeats a (tool, toolInput) pair of
\* the ledger, its step appends one cautionary step carrying that action
\* (and the last-chance step when it is due), invokes no tool and notifies no
\* handler, and leaves no action of the plan to be ranged over; and no
\* (tool, toolInput) pair has more than one tool invocation in a Call.
C24_RepeatedNeverDispatched ==
    /\ [](\A k \in Events("tool") : Cardinality(InvocationsFor(trace[k].acts[1])) = 1)
    /\ [][ (pc = "act" /\ Len(actions) > 0 /\ Repeats(steps, Head(actions)))
           => /\ trace' = trace
              /\ steps' = WithLastChance(
                     Append(steps, AgentStep(Head(actions), RepeatedObservation)),
                     i, maxIterations)
              /\ actions' = <<>>
              /\ pc' = "loop"
         ]_vars

\* With a handler set, the first of two actions of a plan was found repeated
\* after its tool had been invoked in an earlier iteration, and the second
\* action, new to the ledger, was dropped.
C24_Witness ==
    \E p \in PlanEvents("actions") :
        /\ callbacksHandler
        /\ p = Len(trace) /\ pc = "loop"
        /\ Len(trace[p].acts) = 2
        /\ InvocationsFor(trace[p].acts[1]) # {}
        /\ ~Repeats(trace[p].steps, trace[p].acts[2])
        /\ IsPrefix(Append(trace[p].steps, AgentStep(trace[p].acts[1], RepeatedObservation)),
                    steps)
        /\ Len(steps) <= Len(trace[p].steps) + 2

-----------------------------------------------------------------------------
(* C25 *)

\* C25: the first invocation of the planner receives the empty ledger; every
\* invocation receives the ledger of the Call as it is at that moment; while
\* the Call goes on the ledger only grows at its end; so the ledger an
\* invocation received is the beginning of the ledger every later invocation
\* receives, in the same order.
C25_CompleteLedger ==
    /\ [](\A q \in Events("plan") :
             /\ (\A p \in Events("plan") : p >= q) => trace[q].steps = <<>>
             /\ \A p \in Events("plan") : p < q => IsPrefix(trace[p].steps, trace[q].steps))
    /\ [][ /\ \A k \in DOMAIN NewEvents :
                 NewEvents[k].op = "plan" => NewEvents[k].steps = steps
           /\ pc' \notin {"done", "panic"} => IsPrefix(steps, steps')
         ]_vars

\* The planner was invoked with a ledger of a tool result, an invalid-tool
\* step, a recovery step and the last-chance step, in the order in which
\* they were appended.
C25_Witness ==
    \E q \in Events("plan") :
        LET ss == trace[q].steps
        IN  /\ Len(ss) = 4
            /\ ss[1].observation = "4"
            /\ ss[2].observation = InvalidToolObservation(ss[2].action.tool)
            /\ ss[3].action = EmptyAction /\ ss[3] # LastChanceStep
            /\ ss[4] = LastChanceStep

-----------------------------------------------------------------------------
(* C26 *)

\* The steps the ledger has got since the plan event p.
StepsSince(p) == SubSeq(LedgerAfter(p), Len(trace[p].steps) + 1, Len(LedgerAfter(p)))

\* C26: the steps the ledger gets in an iteration carry the actions of the
\* plan in the order of the plan, one step for each action, up to the action
\* the range has got to, then the last-chance step when it is due; and when the
\* range is at an action that is not a repetition and resolves to a tool, its
\* step invokes that tool once with the action, and on an observation appends
\* the step of the action and the observation and only then goes on to the
\* next action of the plan, or to the next iteration after the last action.
C26_InOrder ==
    /\ [](\A p \in PlanEvents("actions") :
             \A k \in DOMAIN StepsSince(p) :
                \/ k <= Len(trace[p].acts) /\ StepsSince(p)[k].action = trace[p].acts[k]
                \/ k = Len(StepsSince(p)) /\ StepsSince(p)[k] = LastChanceStep)
    /\ [][ (Dispatching /\ Resolves(Head(actions)) /\ twin' = twin)
           => /\ Len(trace') >= Len(trace)
              /\ Cardinality(ToolEventsOf(NewEvents)) = 1
              /\ \A k \in ToolEventsOf(NewEvents) :
                    /\ NewEvents[k].tool \in Bearers(Head(actions).tool)
                    /\ NewEvents[k].acts = <<Head(actions)>>
                    /\ IF NewEvents[k].kind = "ok"
                       THEN GoesOn(Append(steps, AgentStep(Head(actions), NewEvents[k].msg)))
                       ELSE pc' = "done" /\ err' = NewEvents[k].msg
         ]_vars

\* A plan asked twice for the same thing: the tool was invoked once, for the
\* first action, and the second action was found repeated against the step of
\* the first.
C26_Witness ==
    \E p \in PlanEvents("actions") :
        /\ trace[p].steps = <<>>
        /\ trace[p].acts = <<Calc, Calc>>
        /\ StepsSince(p) = << AgentStep(Calc, "4"), AgentStep(Calc, RepeatedObservation) >>
        /\ Cardinality(Events("tool")) = 1

-----------------------------------------------------------------------------
(* C27 *)

\* C27: with a handler set, a Finish the planner returns is followed at once
\* by an onFinish with the return values of that Finish and the ledger that
\* was passed to the planner, which is the one onFinish of the Call, and Call
\* has not returned a Finish without it; every tool invocation comes right
\* after the onAction of its action; and when the range is at an action that
\* is not a repetition, whatever tool it names, its step delivers one
\* onAction with the action, before the tool invocation if there is one.
C27_Notifications ==
    /\ [](callbacksHandler =>
            /\ \A p \in PlanEvents("finish") :
                  /\ p + 1 \in Events("onFinish")
                  /\ trace[p + 1].returnValues = trace[p].returnValues
                  /\ trace[p + 1].steps = trace[p].steps
                  /\ Events("onFinish") = {p + 1}
            /\ \A k \in Events("tool") :
                  /\ k - 1 \in Events("onAction")
                  /\ trace[k - 1].acts = trace[k].acts
            /\ (pc = "done" /\ err = NoErr) =>
                  /\ Len(trace) \in Events("onFinish")
                  /\ Len(trace) - 1 \in PlanEvents("finish"))
    /\ [][ (callbacksHandler /\ Dispatching)
           => /\ Len(trace') > Len(trace)
              /\ Cardinality({k \in DOMAIN NewEvents : NewEvents[k].op = "onAction"}) = 1
              /\ NewEvents[1].op = "onAction"
              /\ NewEvents[1].acts = <<Head(actions)>>
         ]_vars

-----------------------------------------------------------------------------
(* C28 *)

\* C28: when the loop has no iteration left, the step of Call returns
\* ErrNotFinished and leaves the ledger as it is; the outputs it returns hold
\* the whole ledger under "intermediateSteps" and no other entry when
\* returnIntermediateSteps is set, and are the empty map when it is not.
C28_ExhaustionOutputs ==
    [][ (pc = "loop" /\ i >= maxIterations)
        => /\ pc' = "done" /\ err' = ErrNotFinished
           /\ steps' = steps
           /\ ~outputs'.nil
           /\ outputs'.output = Absent
           /\ outputs'.intermediateSteps =
                 IF returnIntermediateSteps THEN StepsVal(steps) ELSE Absent
      ]_vars

\* With returnIntermediateSteps set, three iterations ran out and the outputs
\* hold the ledger, which ends with the last-chance step and a step after it.
C28_Witness ==
    /\ pc = "done" /\ err = ErrNotFinished
    /\ returnIntermediateSteps
    /\ i = 3
    /\ \E k \in DOMAIN steps : steps[k] = LastChanceStep /\ k < Len(steps)
    /\ outputs = [nil |-> FALSE, output |-> Absent, intermediateSteps |-> StepsVal(steps)]

-----------------------------------------------------------------------------
(* C29 *)

\* The plan event of the iteration the loop is in.
LastPlan == CHOOSE p \in Events("plan") : \A q \in Events("plan") : q <= p

\* The planner returned an action with the (tool, toolInput) of the action
\* the range is at, in an earlier plan of the Call or earlier in this plan.
ReturnedEarlier ==
    \E p \in PlanEvents("actions") :
        \E j \in DOMAIN trace[p].acts :
            /\ trace[p].acts[j].tool = Head(actions).tool
            /\ trace[p].acts[j].toolInput = Head(actions).toolInput
            /\ \/ p < LastPlan
               \/ p = LastPlan /\ j < Len(trace[p].acts) - Len(actions) + 1

\* C29: the loop appends the cautionary step for an action, and ends the
\* iteration without dispatching it, only when the planner returned an
\* action with the same (tool, toolInput) earlier in the Call.
C29_GuardOnlyOnReturnedActions ==
    [][ ( /\ pc = "act" /\ Len(actions) > 0
          /\ Len(steps') > Len(steps)
          /\ steps'[Len(steps) + 1] = AgentStep(Head(actions), RepeatedObservation) )
        => ReturnedEarlier
      ]_vars

-----------------------------------------------------------------------------
(* C30 *)

\* C30: the map Call returns from a Finish is the return-values map of that
\* Finish itself, the one the planner made and the handler was given; when
\* Call has returned from a Finish that map has the keys and values it had
\* when the planner returned it.
C30_FinishUnmodified ==
    (pc = "done" /\ err = NoErr) =>
        /\ LastPlan \in PlanEvents("finish")
        /\ outputs = trace[LastPlan].returnValues

-----------------------------------------------------------------------------
(* C31 *)

\* C31: in a Call with MaxIterations zero or negative and inputs that are all
\* strings, neither the planner nor a tool is invoked and the ledger stays
\* empty; the Call does not get stuck, and when it has returned it has
\* returned ErrNotFinished, after one onFinish with the "not finished" marker
\* and the empty ledger when there is a handler, and no notification at all
\* when there is none.
C31_NoIterations ==
    (maxIterations <= 0 /\ ~SomeInputNotString) =>
        /\ Events("plan") = {} /\ Events("tool") = {} /\ Events("onAction") = {}
        /\ steps = <<>>
        /\ pc \in {"start", "loop", "done"}
        /\ pc # "done" => (ENABLED Next /\ trace = <<>>)
        /\ pc = "done" =>
              /\ err = ErrNotFinished
              /\ IF callbacksHandler
                 THEN /\ Len(trace) = 1
                      /\ trace[1].op = "onFinish"
                      /\ trace[1].returnValues = OutputMap(ErrNotFinished)
                      /\ trace[1].steps = <<>>
                 ELSE trace = <<>>

\* A Call with MaxIterations -1, a handler and string inputs has returned
\* ErrNotFinished after its one notification.
C31_Witness ==
    /\ maxIterations < 0
    /\ callbacksHandler
    /\ ~SomeInputNotString
    /\ pc = "done" /\ err = ErrNotFinished
    /\ Len(trace) = 1 /\ trace[1].op = "onFinish"

====
